---- MODULE Spec2Model ----
(***************************************************************************)
(* Bloodly: the conversation state machine, the location resolver and the  *)
(* donor matcher of src/blood_donation_bot.py.                             *)
(*                                                                         *)
(* Texts and callback tokens are sequences of one-character strings, so    *)
(* that the regular expressions and str.split of the source are computed   *)
(* on the characters.  The character written "deg" stands for the degree   *)
(* sign.  A coordinate is an integer number of Unit-ths of a degree        *)
(* (Unit = 2^21, finer than 1e-6 degree).                                  *)
(***************************************************************************)
EXTENDS Integers, Sequences, FiniteSets, TLC

\* ------------------------------------------------------------------------
\* Conversation states (line 26) and ConversationHandler.END (lines 213, 288)
MENU == 0
LOCATION == 1
BLOOD_TYPE == 2
CONTACT == 3
PROFILE == 4
FIND == 5
EMERGENCY == 6
LOCATION_FIND == 7
END == -1

States == {MENU, LOCATION, BLOOD_TYPE, CONTACT, PROFILE, LOCATION_FIND, EMERGENCY}

\* The value None of the source; every other value a variable that may be None
\* holds is a non-empty sequence.
None == <<>>

\* A ValueError raised by float() inside parse_dms_coordinate.
ValueError == <<"ValueError">>

BLOOD_TYPES ==
  << <<"A","+">>, <<"A","-">>, <<"B","+">>, <<"B","-">>,
     <<"A","B","+">>, <<"A","B","-">>, <<"O","+">>, <<"O","-">> >>

\* ------------------------------------------------------------------------
\* Characters and the scanning that the regular expressions do.
Digit == {"0","1","2","3","4","5","6","7","8","9"}

DigitVal(c) ==
  CASE c = "0" -> 0 [] c = "1" -> 1 [] c = "2" -> 2 [] c = "3" -> 3
    [] c = "4" -> 4 [] c = "5" -> 5 [] c = "6" -> 6 [] c = "7" -> 7
    [] c = "8" -> 8 [] c = "9" -> 9

\* \s of the re module, on the characters the inputs use.
Space == {" ", "\n", "\t"}

\* The first index j >= i of s with s[j] not in C (Len(s)+1 when there is
\* none): where a greedy C* stops.
RECURSIVE Span(_, _, _)
Span(s, i, C) ==
  IF i > Len(s) \/ s[i] \notin C THEN i ELSE Span(s, i + 1, C)

\* Whether the literal p occurs in s at index i.
At(s, i, p) ==
  /\ i + Len(p) - 1 <= Len(s)
  /\ \A k \in 1..Len(p) : s[i + k - 1] = p[k]

Sub(s, i, j) == SubSeq(s, i, j - 1)

\* ------------------------------------------------------------------------
\* Numbers.  Unit-ths of a degree.
Unit == 2 ^ 21

\* Integer division rounding to nearest (a >= 0, b > 0).
RoundDiv(a, b) == (a + b \div 2) \div b

\* a * n / b rounded to nearest, without forming a * n.
MulDiv(a, n, b) == (a \div b) * n + RoundDiv((a % b) * n, b)

RECURSIVE DigitsVal(_)
DigitsVal(s) ==
  IF s = <<>> THEN 0 ELSE 10 * DigitsVal(SubSeq(s, 1, Len(s) - 1)) + DigitVal(s[Len(s)])

\* float(s) accepts digits with at most one point and at least one digit;
\* anything else a group [\d.]+ can hold ('.', '1.2.3') raises ValueError.
FloatOk(s) ==
  /\ \A k \in 1..Len(s) : s[k] \in Digit \cup {"."}
  /\ Cardinality({k \in 1..Len(s) : s[k] = "."}) <= 1
  /\ \E k \in 1..Len(s) : s[k] \in Digit

\* The first three fraction digits of an unsigned decimal, as thousandths.
Thousandths(s) ==
  LET p == Span(s, 1, Digit)
      f == IF p > Len(s) THEN <<>> ELSE SubSeq(s, p + 1, Len(s))
      g == SubSeq(f \o <<"0","0","0">>, 1, 3)
  IN  DigitsVal(SubSeq(s, 1, p - 1)) * 1000 + DigitsVal(g)

\* float(s) of an optionally signed decimal, in Unit-ths.
FloatUnits(s) ==
  LET neg == s # <<>> /\ s[1] = "-"
      u   == IF neg THEN Tail(s) ELSE s
      t   == Thousandths(u)
      v   == (t \div 1000) * Unit + RoundDiv((t % 1000) * Unit, 1000)
  IN  IF neg THEN -v ELSE v

\* ------------------------------------------------------------------------
\* parse_dms_coordinate (lines 51-62).
\* One half of the pattern, (\d+)deg(\d+)'([\d.]+)"([H]), matched at index i.
DmsHalf(s, i, H) ==
  LET a == Span(s, i, Digit)
      b == Span(s, a + 1, Digit)
      c == Span(s, b + 1, Digit \cup {"."})
      ok == /\ a > i /\ a <= Len(s) /\ s[a] = "deg"
            /\ b > a + 1 /\ b <= Len(s) /\ s[b] = "'"
            /\ c > b + 1 /\ c <= Len(s) /\ s[c] = "\""
            /\ c + 1 <= Len(s) /\ s[c + 1] \in H
  IN  IF ok
      THEN [ok |-> TRUE, d |-> Sub(s, i, a), m |-> Sub(s, a + 1, b),
            sec |-> Sub(s, b + 1, c), dir |-> s[c + 1], next |-> c + 2]
      ELSE [ok |-> FALSE]

\* float(d) + float(m)/60 + float(sec)/3600, in Unit-ths (Unit/3600000 =
\* 16384/28125).
DmsUnits(h) ==
  DigitsVal(h.d) * Unit
    + MulDiv(DigitsVal(h.m) * 60000 + Thousandths(h.sec), 16384, 28125)

\* None, the pair <<lat, lon>>, or "ValueError" when float() of a seconds
\* group raises (line 59, 60).
parse_dms_coordinate(coord_str) ==
  LET la == DmsHalf(coord_str, 1, {"N", "S"})
      lo == IF la.ok
            THEN DmsHalf(coord_str, Span(coord_str, la.next, Space), {"E", "W"})
            ELSE [ok |-> FALSE]
  IN  IF ~la.ok \/ ~lo.ok THEN None
      ELSE IF ~FloatOk(la.sec) \/ ~FloatOk(lo.sec) THEN ValueError
      ELSE << DmsUnits(la) * (IF la.dir = "N" THEN 1 ELSE -1),
              DmsUnits(lo) * (IF lo.dir = "E" THEN 1 ELSE -1) >>

\* ------------------------------------------------------------------------
\* extract_coords_from_google_maps_link (lines 144-153).
\* (-?\d+\.\d+) matched at index i: the index after it, or 0.
DecimalEnd(s, i) ==
  LET j == IF i <= Len(s) /\ s[i] = "-" THEN i + 1 ELSE i
      a == Span(s, j, Digit)
      b == Span(s, a + 1, Digit)
  IN  IF a > j /\ a <= Len(s) /\ s[a] = "." /\ b > a + 1 THEN b ELSE 0

\* prefix(-?\d+\.\d+),(-?\d+\.\d+) matched at index i.
PairAt(s, i, prefix) ==
  LET j == i + Len(prefix)
      a == DecimalEnd(s, j)
      b == IF a > 0 /\ a <= Len(s) /\ s[a] = "," THEN DecimalEnd(s, a + 1) ELSE 0
  IN  IF At(s, i, prefix) /\ b > 0
      THEN [ok |-> TRUE, lat |-> Sub(s, j, a), lon |-> Sub(s, a + 1, b)]
      ELSE [ok |-> FALSE]

\* re.search: the leftmost match.
SearchPair(s, prefix) ==
  LET hits == {i \in 1..Len(s) : PairAt(s, i, prefix).ok}
  IN  IF hits = {} THEN [ok |-> FALSE]
      ELSE PairAt(s, CHOOSE i \in hits : \A k \in hits : i <= k, prefix)

\* extract_coords_from_google_maps_link with the two patterns in the other
\* order.
extract_coords_llFirst(link) ==
  LET p1 == SearchPair(link, <<"l", "l", "=">>)
      p2 == SearchPair(link, <<"@">>)
  IN  IF p1.ok THEN <<FloatUnits(p1.lat), FloatUnits(p1.lon)>>
      ELSE IF p2.ok THEN <<FloatUnits(p2.lat), FloatUnits(p2.lon)>>
      ELSE None

extract_coords_from_google_maps_link(link) ==
  LET p1 == SearchPair(link, <<"@">>)
      p2 == SearchPair(link, <<"l", "l", "=">>)
  IN  IF p1.ok THEN <<FloatUnits(p1.lat), FloatUnits(p1.lon)>>
      ELSE IF p2.ok THEN <<FloatUnits(p2.lat), FloatUnits(p2.lon)>>
      ELSE None

\* ------------------------------------------------------------------------
\* re.match(r'^\+?880\d{10}$', contact) (line 167).  '$' matches at the end
\* of the string and also just before a newline that ends the string.
ContactMatches(contact) ==
  LET i == IF contact # <<>> /\ contact[1] = "+" THEN 2 ELSE 1
      e == i + 13
  IN  /\ At(contact, i, <<"8", "8", "0">>)
      /\ e - 1 <= Len(contact)
      /\ \A k \in (i + 3)..(e - 1) : contact[k] \in Digit
      /\ \/ e = Len(contact) + 1
         \/ e = Len(contact) /\ contact[e] = "\n"

\* ------------------------------------------------------------------------
\* str.lower (line 178), on the ASCII letters.
UpperCase == <<"A","B","C","D","E","F","G","H","I","J","K","L","M",
               "N","O","P","Q","R","S","T","U","V","W","X","Y","Z">>
LowerCase == <<"a","b","c","d","e","f","g","h","i","j","k","l","m",
               "n","o","p","q","r","s","t","u","v","w","x","y","z">>

LowerChar(c) ==
  IF \E k \in 1..26 : UpperCase[k] = c
  THEN LowerCase[CHOOSE k \in 1..26 : UpperCase[k] = c]
  ELSE c

Lower(s) == [k \in 1..Len(s) |-> LowerChar(s[k])]

\* datetime.strptime(text, '%Y-%m-%d') (line 182): %Y is four digits, %m is
\* 1[0-2]|0[1-9]|[1-9], %d is 3[01]|[12]\d|0[1-9]|[1-9]| [1-9], the whole
\* text is consumed and the date exists.  None stands for ValueError.
IsLeap(y) == (y % 4 = 0 /\ y % 100 # 0) \/ y % 400 = 0

DaysIn(y, m) ==
  IF m = 2 THEN (IF IsLeap(y) THEN 29 ELSE 28)
  ELSE IF m \in {4, 6, 9, 11} THEN 30 ELSE 31

MonthOk(s) ==
  \/ Len(s) = 1 /\ s[1] \in Digit \ {"0"}
  \/ Len(s) = 2 /\ s[1] = "0" /\ s[2] \in Digit \ {"0"}
  \/ Len(s) = 2 /\ s[1] = "1" /\ s[2] \in {"0", "1", "2"}

DayOk(s) ==
  \/ Len(s) = 1 /\ s[1] \in Digit \ {"0"}
  \/ Len(s) = 2 /\ s[1] = "3" /\ s[2] \in {"0", "1"}
  \/ Len(s) = 2 /\ s[1] \in {"1", "2"} /\ s[2] \in Digit
  \/ Len(s) = 2 /\ s[1] \in {"0", " "} /\ s[2] \in Digit \ {"0"}

DayVal(s) == IF s[1] = " " THEN DigitVal(s[2]) ELSE DigitsVal(s)

strptime(text) ==
  LET a  == Span(text, 6, Digit)
      ms == Sub(text, 6, a)
      ds == SubSeq(text, a + 1, Len(text))
      ok == /\ Len(text) >= 5
            /\ \A k \in 1..4 : text[k] \in Digit
            /\ text[5] = "-"
            /\ a <= Len(text) /\ text[a] = "-"
            /\ MonthOk(ms)
            /\ DayOk(ds)
  IN  IF ~ok THEN None
      ELSE LET y == DigitsVal(SubSeq(text, 1, 4))
               m == DigitsVal(ms)
               d == DayVal(ds)
           IN  IF y >= 1 /\ d <= DaysIn(y, m) THEN <<y, m, d>> ELSE None

\* date.isoformat() (line 182): YYYY-MM-DD, zero padded.
DigitChars == <<"0","1","2","3","4","5","6","7","8","9">>

RECURSIVE Pad(_, _)
Pad(n, width) ==
  IF width = 0 THEN <<>> ELSE Pad(n \div 10, width - 1) \o <<DigitChars[(n % 10) + 1]>>

isoformat(date) ==
  Pad(date[1], 4) \o <<"-">> \o Pad(date[2], 2) \o <<"-">> \o Pad(date[3], 2)

\* ------------------------------------------------------------------------
\* str.split(sep) (lines 159, 242): the pieces between the separators.
RECURSIVE Split(_, _)
Split(s, sep) ==
  LET i == Span(s, 1, {c \in {s[k] : k \in 1..Len(s)} : c # sep})
  IN  IF i > Len(s) THEN <<s>>
      ELSE <<SubSeq(s, 1, i - 1)>> \o Split(SubSeq(s, i + 1, Len(s)), sep)

\* ------------------------------------------------------------------------
\* The donors table (lines 35-46) and what PostgreSQL does with the values.

\* The number of bits of n >= 0.
RECURSIVE BitLen(_)
BitLen(n) == IF n = 0 THEN 0 ELSE 1 + BitLen(n \div 2)

Abs(n) == IF n < 0 THEN -n ELSE n

\* A REAL column (lines 41, 42) keeps 24 significant bits: the value is
\* rounded to the nearest single-precision number, ties to even.
ToReal(v) ==
  LET a    == Abs(v)
      bits == BitLen(a)
      step == IF bits > 24 THEN 2 ^ (bits - 24) ELSE 1
      q    == a \div step
      r    == a % step
      up   == 2 * r > step \/ (2 * r = step /\ q % 2 = 1)
      m    == (IF up THEN q + 1 ELSE q) * step
  IN  IF v < 0 THEN -m ELSE m

\* The row the INSERT of lines 192-205 writes.
DonorRow(user_id, name, blood_type, latitude, longitude, contact_, last_donation) ==
  [user_id |-> user_id, name |-> name, blood_type |-> blood_type,
   latitude |-> ToReal(latitude), longitude |-> ToReal(longitude),
   contact |-> contact_, last_donation |-> last_donation]

\* Upsert written as a DELETE of the table's rows and an INSERT.
Upsert_replace(table, row) == {row}

\* INSERT ... ON CONFLICT (user_id) DO UPDATE SET ... (lines 193-202), on the
\* table with user_id UNIQUE (line 38).
Upsert(table, row) ==
  {r \in table : r.user_id # row.user_id} \cup {row}

\* geodesic(p, q) (lines 10, 221): the distance of two points.  Only its
\* order matters to the matcher; the ellipsoid is abstracted by the sum of
\* the coordinate differences.
geodesic(lat1, lon1, lat2, lon2) == Abs(lat1 - lat2) + Abs(lon1 - lon2)

\* Every enumeration of the finite set S as a sequence.
RECURSIVE Perms(_)
Perms(S) ==
  IF S = {} THEN {<<>>}
  ELSE UNION {{<<x>> \o p : p \in Perms(S \ {x})} : x \in S}

Take(seq, n) == SubSeq(seq, 1, IF n < Len(seq) THEN n ELSE Len(seq))

\* SelectNearest without its ORDER BY: the matching rows in any order.
SelectNearest_unordered(table, lat, lon, blood_type, limit) ==
  {Take(p, limit) : p \in Perms({r \in table : r.blood_type = blood_type})}

\* SelectNearest without its WHERE: the rows of every blood type.
SelectNearest_anytype(table, lat, lon, blood_type, limit) ==
  LET dist(r) == geodesic(r.latitude, r.longitude, lat, lon)
      ordered == {p \in Perms(table) :
                    \A i \in 1..(Len(p) - 1) : dist(p[i]) <= dist(p[i + 1])}
  IN  {Take(p, limit) : p \in ordered}

\* The row sequences the SELECT of lines 219-226 may return: WHERE
\* blood_type = $3, ORDER BY distance ASC (rows at the same distance in any
\* order), LIMIT $4.
SelectNearest(table, lat, lon, blood_type, limit) ==
  LET match == {r \in table : r.blood_type = blood_type}
      dist(r) == geodesic(r.latitude, r.longitude, lat, lon)
      ordered == {p \in Perms(match) :
                    \A i \in 1..(Len(p) - 1) : dist(p[i]) <= dist(p[i + 1])}
  IN  {Take(p, limit) : p \in ordered}

\* find_nearest_donors (lines 215-231): the lists it may return.  dbOk is
\* whether the connection and the query succeed; a failure returns [].
find_nearest_donors(table, lat, lon, blood_type, limit, dbOk) ==
  IF ~dbOk THEN {<<>>}
  ELSE {[i \in 1..Len(rows) |->
           [name |-> rows[i].name, contact |-> rows[i].contact,
            distance |-> geodesic(rows[i].latitude, rows[i].longitude, lat, lon)]] :
        rows \in SelectNearest(table, lat, lon, blood_type, limit)}

\* ------------------------------------------------------------------------
\* The state.
VARIABLES
  state,      \* the ConversationHandler's state of each user's conversation
  user_data,  \* context.user_data of each user: a dict
  donors,     \* the rows of the donors table
  captured,   \* the user_data keys each user's flow in progress has stored
  last,       \* what the handler of the last update did
  seen        \* the last update itself, in the runs that record it

vars == <<state, user_data, donors, captured, last, seen>>

Users == {1, 2}

\* update.effective_user.full_name (line 188).
full_name(u) == IF u = 1 THEN <<"A","n","a">> ELSE <<"B","o","b">>

Keys == {"blood_type", "latitude", "longitude", "contact"}

\* d[k] = v of a dict.
Put(d, k, v) == [x \in (DOMAIN d) \cup {k} |-> IF x = k THEN v ELSE d[x]]

NoCall == [called |-> FALSE]

\* The record of a call of find_nearest_donors.
Call(lat, lon, blood_type, limit, dbOk, result) ==
  [called |-> TRUE, latitude |-> lat, longitude |-> lon,
   blood_type |-> blood_type, limit |-> limit, dbOk |-> dbOk, result |-> result]

\* The default of find_nearest_donors' limit (line 215).
DefaultLimit == 5

\* No location was looked for.
NoPlace == [kind |-> "unused", geo |-> "unused"]

\* Before the first update.
NoUpdate ==
  [user |-> 0, handler |-> "none", from |-> END, registered |-> FALSE,
   reply |-> "none", raised |-> FALSE, db |-> "none", reads |-> {}, fresh |-> {},
   matcher |-> NoCall, where |-> NoPlace, committed |-> None]

Init ==
  /\ state = [u \in Users |-> END]
  /\ user_data = [u \in Users |-> <<>>]
  /\ donors = {}
  /\ captured = [u \in Users |-> {}]
  /\ last = NoUpdate
  /\ seen = <<>>

\* The record of a handled update: its handler, the state it was handled in
\* and whether the user had a row then, the reply sent, whether the handler
\* raised, the outcome of its donor-store call ("none" without one), the
\* user_data keys it read with the keys the flow had stored by then, its call
\* of the matcher, the outcome of its location chain, and the values it bound
\* to the INSERT.
Record(u, handler, reply, raised, db, reads, matcher, where, committed) ==
  last' = [user |-> u, handler |-> handler, from |-> state[u],
           registered |-> \E r \in donors : r.user_id = u,
           reply |-> reply, raised |-> raised, db |-> db, reads |-> reads,
           fresh |-> captured[u], matcher |-> matcher, where |-> where,
           committed |-> committed]

Handled(u, handler, reply, raised, db, reads, matcher) ==
  Record(u, handler, reply, raised, db, reads, matcher, NoPlace, None)

DbOutcome(dbOk) == IF dbOk THEN "ok" ELSE "fail"

\* An update: a text message, a location message or a button callback.
TextUpdate(t)     == [kind |-> "text", text |-> t]
LocationUpdate(p) == [kind |-> "location", location |-> p]
CallbackUpdate(d) == [kind |-> "callback", data |-> d]

\* ------------------------------------------------------------------------
\* main (lines 324-336): which handler the ConversationHandler gives an
\* update to.  CommandHandler('start') takes a text that is the command;
\* filters.TEXT takes every text, a command too; a CallbackQueryHandler takes
\* a callback whose data its pattern matches at the start.
IsStartCommand(upd) ==
  /\ upd.kind = "text"
  /\ At(upd.text, 1, <<"/","s","t","a","r","t">>)
  /\ (Len(upd.text) = 6 \/ upd.text[7] \in Space)

TextFilter(upd) == upd.kind = "text" /\ upd.text # <<>>

LocationOrText(upd) == upd.kind = "location" \/ TextFilter(upd)

BloodPattern(upd) ==
  upd.kind = "callback" /\ At(upd.data, 1, <<"b","l","o","o","d","_">>)

StateHandler(s, upd) ==
  CASE s = MENU /\ upd.kind = "callback"         -> "menu_callback"
    [] s = LOCATION /\ LocationOrText(upd)       -> "location"
    [] s = BLOOD_TYPE /\ BloodPattern(upd)       -> "blood_type_callback"
    [] s = CONTACT /\ TextFilter(upd)            -> "contact"
    [] s = PROFILE /\ TextFilter(upd)            -> "profile"
    [] s = LOCATION_FIND /\ LocationOrText(upd)  -> "location_find"
    [] s = EMERGENCY /\ BloodPattern(upd)        -> "emergency_callback"
    [] OTHER                                     -> "none"

\* The ConversationHandler with menu_callback also among the fallbacks.
HandlerFor_menuFallback(s, upd) ==
  IF s = END
  THEN (IF IsStartCommand(upd) THEN "start" ELSE "none")
  ELSE IF StateHandler(s, upd) # "none" THEN StateHandler(s, upd)
  ELSE IF IsStartCommand(upd) THEN "start"
  ELSE IF upd.kind = "callback" THEN "menu_callback"
  ELSE "none"

\* Without a conversation the entry points are tried; in a state, the
\* state's handlers first and the fallbacks after them.
HandlerFor(s, upd) ==
  IF s = END
  THEN (IF IsStartCommand(upd) THEN "start" ELSE "none")
  ELSE IF StateHandler(s, upd) # "none" THEN StateHandler(s, upd)
  ELSE IF IsStartCommand(upd) THEN "start"
  ELSE "none"

\* ------------------------------------------------------------------------
\* start (lines 64-86).  The connection and the query are outside any try:
\* when they fail the handler raises, nothing is sent and the conversation
\* keeps its state.
start(u, upd) ==
  /\ HandlerFor(state[u], upd) = "start"
  /\ \E dbOk \in BOOLEAN :
       IF dbOk
       THEN /\ state' = [state EXCEPT ![u] = MENU]
            /\ captured' = [captured EXCEPT ![u] = {}]
            /\ Handled(u, "start",
                       IF \E r \in donors : r.user_id = u
                       THEN "welcome_with_profile" ELSE "welcome",
                       FALSE, "ok", {}, NoCall)
       ELSE /\ Handled(u, "start", "none", TRUE, "fail", {}, NoCall)
            /\ UNCHANGED <<state, captured>>
  /\ UNCHANGED <<user_data, donors>>

\* show_profile returning to the menu.
show_profile_stay(u) ==
  \E dbOk \in BOOLEAN :
    /\ state' = [state EXCEPT ![u] = MENU]
    /\ captured' = [captured EXCEPT ![u] = {}]
    /\ Handled(u, "menu_callback",
               IF ~dbOk THEN "profile_error"
               ELSE IF \E r \in donors : r.user_id = u THEN "profile"
               ELSE "profile_not_found",
               FALSE, DbOutcome(dbOk), {}, NoCall)

\* show_profile (lines 290-319): the reply, and END in every case.
show_profile(u) ==
  \E dbOk \in BOOLEAN :
    /\ state' = [state EXCEPT ![u] = END]
    /\ captured' = [captured EXCEPT ![u] = {}]
    /\ Handled(u, "menu_callback",
               IF ~dbOk THEN "profile_error"
               ELSE IF \E r \in donors : r.user_id = u THEN "profile"
               ELSE "profile_not_found",
               FALSE, DbOutcome(dbOk), {}, NoCall)

\* find_blood (lines 233-236).
find_blood(u) ==
  /\ state' = [state EXCEPT ![u] = LOCATION_FIND]
  /\ Handled(u, "menu_callback", "ask_location_find", FALSE, "none", {}, NoCall)
  /\ UNCHANGED captured

\* menu_callback (lines 88-106).
menu_callback(u, upd) ==
  /\ HandlerFor(state[u], upd) = "menu_callback"
  /\ CASE upd.data = <<"d","o","n","a","t","e">> ->
            /\ state' = [state EXCEPT ![u] = LOCATION]
            /\ Handled(u, "menu_callback", "ask_location", FALSE, "none", {}, NoCall)
            /\ UNCHANGED captured
       [] upd.data = <<"f","i","n","d">> -> find_blood(u)
       [] upd.data = <<"e","m","e","r","g","e","n","c","y">> ->
            /\ state' = [state EXCEPT ![u] = EMERGENCY]
            /\ Handled(u, "menu_callback", "ask_needed_type", FALSE, "none", {}, NoCall)
            /\ UNCHANGED captured
       [] upd.data = <<"p","r","o","f","i","l","e">> -> show_profile(u)
       [] OTHER ->
            /\ state' = [state EXCEPT ![u] = MENU]
            /\ Handled(u, "menu_callback", "invalid_choice", FALSE, "none", {}, NoCall)
            /\ UNCHANGED captured
  /\ UNCHANGED <<user_data, donors>>

\* What geolocator.geocode (lines 124, 264) may do: return None, raise, or
\* return a place (here 23.777, 90.399).
GeoPlace == [kind |-> "place", latitude |-> 49863983, longitude |-> 189580444]

GeoOutcomes == {[kind |-> "none"], [kind |-> "raise"], GeoPlace}

\* The outcomes of the chain of location (lines 111-137): a native location
\* as it is; for a text the DMS parse, then the map link, then the geocoder.
\* "invalid" and "error" are the two re-prompts, "raise" a ValueError that
\* leaves parse_dms_coordinate.
location_coords(upd) ==
  IF upd.kind = "location"
  THEN {[kind |-> "coords", latitude |-> upd.location.latitude,
         longitude |-> upd.location.longitude, by |-> "native", geo |-> "unused"]}
  ELSE LET dms == parse_dms_coordinate(upd.text) IN
       IF dms = ValueError THEN {[kind |-> "raise", geo |-> "unused"]}
       ELSE IF dms # None
       THEN {[kind |-> "coords", latitude |-> dms[1], longitude |-> dms[2], by |-> "dms",
              geo |-> "unused"]}
       ELSE LET link == extract_coords_from_google_maps_link(upd.text) IN
            IF link # None
            THEN {[kind |-> "coords", latitude |-> link[1], longitude |-> link[2],
                   by |-> "link", geo |-> "unused"]}
            ELSE {IF geo.kind = "place"
                  THEN [kind |-> "coords", latitude |-> geo.latitude,
                        longitude |-> geo.longitude, by |-> "geocoder", geo |-> "place"]
                  ELSE IF geo.kind = "none" THEN [kind |-> "invalid", geo |-> "none"]
                  ELSE [kind |-> "error", geo |-> "raise"] : geo \in GeoOutcomes}

\* location (lines 108-142).
location(u, upd) ==
  /\ HandlerFor(state[u], upd) = "location"
  /\ \E c \in location_coords(upd) :
       CASE c.kind = "coords" ->
              /\ user_data' = [user_data EXCEPT ![u] =
                     Put(Put(@, "latitude", c.latitude), "longitude", c.longitude)]
              /\ state' = [state EXCEPT ![u] = BLOOD_TYPE]
              /\ captured' = [captured EXCEPT ![u] = @ \cup {"latitude", "longitude"}]
              /\ Record(u, "location", "ask_blood_type", FALSE, "none", {}, NoCall, c, None)
         [] c.kind = "raise" ->
              /\ Record(u, "location", "none", TRUE, "none", {}, NoCall, c, None)
              /\ UNCHANGED <<state, user_data, captured>>
         [] OTHER ->
              /\ state' = [state EXCEPT ![u] = LOCATION]
              /\ Record(u, "location",
                         IF c.kind = "invalid" THEN "invalid_location" ELSE "location_error",
                         FALSE, "none", {}, NoCall, c, None)
              /\ UNCHANGED <<user_data, captured>>
  /\ UNCHANGED donors

\* blood_type_callback storing the whole callback data under another key.
blood_type_callback_otherkey(u, upd) ==
  /\ HandlerFor(state[u], upd) = "blood_type_callback"
  /\ user_data' = [user_data EXCEPT ![u] = Put(@, "blood", upd.data)]
  /\ state' = [state EXCEPT ![u] = CONTACT]
  /\ captured' = [captured EXCEPT ![u] = @ \cup {"blood"}]
  /\ Handled(u, "blood_type_callback", "ask_contact", FALSE, "none", {}, NoCall)
  /\ UNCHANGED donors

\* blood_type_callback keeping the blood type in one place for all users.
blood_type_callback_shared(u, upd) ==
  /\ HandlerFor(state[u], upd) = "blood_type_callback"
  /\ user_data' = [v \in Users |-> Put(user_data[v], "blood_type", Split(upd.data, "_")[2])]
  /\ state' = [state EXCEPT ![u] = CONTACT]
  /\ captured' = [captured EXCEPT ![u] = @ \cup {"blood_type"}]
  /\ Handled(u, "blood_type_callback", "ask_contact", FALSE, "none", {}, NoCall)
  /\ UNCHANGED donors

\* blood_type_callback (lines 155-162).
blood_type_callback(u, upd) ==
  /\ HandlerFor(state[u], upd) = "blood_type_callback"
  /\ user_data' = [user_data EXCEPT ![u] = Put(@, "blood_type", Split(upd.data, "_")[2])]
  /\ state' = [state EXCEPT ![u] = CONTACT]
  /\ captured' = [captured EXCEPT ![u] = @ \cup {"blood_type"}]
  /\ Handled(u, "blood_type_callback", "ask_contact", FALSE, "none", {}, NoCall)
  /\ UNCHANGED donors

\* contact (lines 164-173).
contact(u, upd) ==
  /\ HandlerFor(state[u], upd) = "contact"
  /\ IF ContactMatches(upd.text)
     THEN /\ user_data' = [user_data EXCEPT ![u] = Put(@, "contact", upd.text)]
          /\ state' = [state EXCEPT ![u] = PROFILE]
          /\ captured' = [captured EXCEPT ![u] = @ \cup {"contact"}]
          /\ Handled(u, "contact", "ask_last_donation", FALSE, "none", {}, NoCall)
     ELSE /\ state' = [state EXCEPT ![u] = CONTACT]
          /\ Handled(u, "contact", "invalid_contact", FALSE, "none", {}, NoCall)
          /\ UNCHANGED <<user_data, captured>>
  /\ UNCHANGED donors

\* The last_donation value profile derives from the text (lines 176-185):
\* None for 'never' in any case, the ISO date of a text strptime accepts,
\* and no value for the re-prompt.
last_donation_of(text) ==
  IF Lower(text) = <<"n","e","v","e","r">> THEN [ok |-> TRUE, value |-> None]
  ELSE IF strptime(text) # None THEN [ok |-> TRUE, value |-> isoformat(strptime(text))]
  ELSE [ok |-> FALSE]

\* Whether the driver takes v as the argument of the DATE column
\* last_donation (line 44): asyncpg encodes a date object or None, and
\* refuses a str such as the one isoformat() returns (line 182) with a
\* DataError.
DateArgOk(v) == v = None

\* profile (lines 175-213).  The try block reads the four user_data keys
\* and writes the row; an exception inside it (the connection, a missing
\* key, an argument the driver refuses) is caught and answered.  The
\* conversation ends in both cases.
profile(u, upd) ==
  /\ HandlerFor(state[u], upd) = "profile"
  /\ LET ld == last_donation_of(upd.text)
         d  == user_data[u]
         args == IF Keys \subseteq DOMAIN d
                 THEN <<u, full_name(u), d["blood_type"], d["latitude"], d["longitude"],
                        d["contact"], ld.value>>
                 ELSE None
     IN  IF ~ld.ok
         THEN /\ state' = [state EXCEPT ![u] = PROFILE]
              /\ Handled(u, "profile", "invalid_date", FALSE, "none", {}, NoCall)
              /\ UNCHANGED <<donors, captured>>
         ELSE /\ \E dbOk \in BOOLEAN :
                   IF dbOk /\ Keys \subseteq DOMAIN d /\ DateArgOk(ld.value)
                   THEN /\ donors' = Upsert(donors,
                              DonorRow(args[1], args[2], args[3], args[4], args[5],
                                       args[6], args[7]))
                        /\ Record(u, "profile", "registered", FALSE, "ok", Keys, NoCall,
                                  NoPlace, args)
                   ELSE /\ Record(u, "profile", "save_error", FALSE,
                                  IF ~dbOk THEN "fail"
                                  ELSE IF Keys \subseteq DOMAIN d THEN "data_error"
                                  ELSE "ok",
                                  Keys, NoCall, NoPlace, args)
                        /\ UNCHANGED donors
              /\ state' = [state EXCEPT ![u] = END]
              /\ captured' = [captured EXCEPT ![u] = {}]
  /\ UNCHANGED user_data

\* emergency_callback keeping the sought blood type in one place for all
\* users.
emergency_callback_shared(u, upd) ==
  /\ HandlerFor(state[u], upd) = "emergency_callback"
  /\ user_data' = [v \in Users |-> Put(user_data[v], "blood_type", Split(upd.data, "_")[2])]
  /\ state' = [state EXCEPT ![u] = LOCATION_FIND]
  /\ captured' = [captured EXCEPT ![u] = @ \cup {"blood_type"}]
  /\ Handled(u, "emergency_callback", "ask_location_emergency", FALSE, "none", {}, NoCall)
  /\ UNCHANGED donors

\* emergency_callback (lines 238-246).
emergency_callback(u, upd) ==
  /\ HandlerFor(state[u], upd) = "emergency_callback"
  /\ user_data' = [user_data EXCEPT ![u] = Put(@, "blood_type", Split(upd.data, "_")[2])]
  /\ state' = [state EXCEPT ![u] = LOCATION_FIND]
  /\ captured' = [captured EXCEPT ![u] = @ \cup {"blood_type"}]
  /\ Handled(u, "emergency_callback", "ask_location_emergency", FALSE, "none", {}, NoCall)
  /\ UNCHANGED donors

\* location_find_coords taking the geocoder's None for a place at the origin.
location_find_coords_origin(upd) ==
  IF upd.kind = "location"
  THEN {[kind |-> "coords", latitude |-> upd.location.latitude,
         longitude |-> upd.location.longitude, by |-> "native", geo |-> "unused"]}
  ELSE LET dms == parse_dms_coordinate(upd.text) IN
       IF dms = ValueError THEN {[kind |-> "raise", geo |-> "unused"]}
       ELSE IF dms # None
       THEN {[kind |-> "coords", latitude |-> dms[1], longitude |-> dms[2], by |-> "dms",
              geo |-> "unused"]}
       ELSE LET link == extract_coords_from_google_maps_link(upd.text) IN
            IF link # None
            THEN {[kind |-> "coords", latitude |-> link[1], longitude |-> link[2],
                   by |-> "link", geo |-> "unused"]}
            ELSE {IF geo.kind = "place"
                  THEN [kind |-> "coords", latitude |-> geo.latitude,
                        longitude |-> geo.longitude, by |-> "geocoder", geo |-> "place"]
                  ELSE IF geo.kind = "none"
                  THEN [kind |-> "coords", latitude |-> 0, longitude |-> 0,
                        by |-> "geocoder", geo |-> "none"]
                  ELSE [kind |-> "error", geo |-> "raise"] : geo \in GeoOutcomes}

\* The outcomes of the chain of location_find (lines 251-277): the chain of
\* location, written out a second time in the source.
location_find_coords(upd) ==
  IF upd.kind = "location"
  THEN {[kind |-> "coords", latitude |-> upd.location.latitude,
         longitude |-> upd.location.longitude, by |-> "native", geo |-> "unused"]}
  ELSE LET dms == parse_dms_coordinate(upd.text) IN
       IF dms = ValueError THEN {[kind |-> "raise", geo |-> "unused"]}
       ELSE IF dms # None
       THEN {[kind |-> "coords", latitude |-> dms[1], longitude |-> dms[2], by |-> "dms",
              geo |-> "unused"]}
       ELSE LET link == extract_coords_from_google_maps_link(upd.text) IN
            IF link # None
            THEN {[kind |-> "coords", latitude |-> link[1], longitude |-> link[2],
                   by |-> "link", geo |-> "unused"]}
            ELSE {IF geo.kind = "place"
                  THEN [kind |-> "coords", latitude |-> geo.latitude,
                        longitude |-> geo.longitude, by |-> "geocoder", geo |-> "place"]
                  ELSE IF geo.kind = "none" THEN [kind |-> "invalid", geo |-> "none"]
                  ELSE [kind |-> "error", geo |-> "raise"] : geo \in GeoOutcomes}

\* location_find (lines 248-288).  Line 279 reads user_data['blood_type']
\* outside any try: without the key the handler raises KeyError, nothing is
\* sent and the conversation keeps its state.
location_find(u, upd) ==
  /\ HandlerFor(state[u], upd) = "location_find"
  /\ \E c \in location_find_coords(upd) :
       CASE c.kind = "coords" /\ "blood_type" \in DOMAIN user_data[u] ->
              \E dbOk \in BOOLEAN :
              \E found \in find_nearest_donors(donors, c.latitude, c.longitude,
                               user_data[u]["blood_type"], DefaultLimit, dbOk) :
                /\ state' = [state EXCEPT ![u] = END]
                /\ captured' = [captured EXCEPT ![u] = {}]
                /\ Record(u, "location_find",
                           IF found # <<>> THEN "found" ELSE "none_found", FALSE,
                           DbOutcome(dbOk), {"blood_type"},
                           Call(c.latitude, c.longitude, user_data[u]["blood_type"],
                                DefaultLimit, dbOk, found), c, None)
         [] c.kind = "coords" /\ "blood_type" \notin DOMAIN user_data[u] ->
              /\ Record(u, "location_find", "none", TRUE, "none", {"blood_type"}, NoCall,
                        c, None)
              /\ UNCHANGED <<state, captured>>
         [] c.kind = "raise" ->
              /\ Record(u, "location_find", "none", TRUE, "none", {}, NoCall, c, None)
              /\ UNCHANGED <<state, captured>>
         [] OTHER ->
              /\ state' = [state EXCEPT ![u] = LOCATION_FIND]
              /\ Record(u, "location_find",
                         IF c.kind = "invalid" THEN "invalid_location" ELSE "location_error",
                         FALSE, "none", {}, NoCall, c, None)
              /\ UNCHANGED captured
  /\ UNCHANGED <<user_data, donors>>

\* An update no handler of the conversation takes (lines 324-336): nothing
\* runs.
unhandled(u, upd) ==
  /\ HandlerFor(state[u], upd) = "none"
  /\ Handled(u, "none", "none", FALSE, "none", {}, NoCall)
  /\ UNCHANGED <<state, user_data, donors, captured>>

\* ------------------------------------------------------------------------
\* The inputs of the checked runs.
T_start     == <<"/","s","t","a","r","t">>
T_dms       == <<"2","3","deg","4","6","'","3","7",".","2","\"","N"," ",
                 "9","0","deg","2","3","'","5","6",".","4","\"","E">>
T_link      == <<"@","2","3",".","7","7","7",",","9","0",".","3","9","9">>
T_address   == <<"D","h","a","k","a">>
T_phone     == <<"+","8","8","0","1","7","1","2","3","4","5","6","7","8">>
T_phone880  == <<"8","8","0","1","9","1","2","3","4","5","6","7","8">>
T_local     == <<"0","1","7","1","2","3","4","5","6","7","8">>
T_long      == <<"8","8","0","1","7","1","2","3","4","5","6","7","8","9">>
T_phoneNl   == <<"8","8","0","1","7","1","2","3","4","5","6","7","8","\n">>
T_Never     == <<"N","e","v","e","r">>
T_date      == <<"2","0","2","3","-","0","5","-","0","1">>
T_neverMind == <<"n","e","v","e","r","-","m","i","n","d">>
T_NEVER     == <<"N","E","V","E","R">>
T_linkFar   == <<"l","l","=","9","5",".","5",",","-","2","0","0",".","2","5">>

\* Native locations: (23.8103, 90.4125) and (23.777, 90.399), in Unit-ths.
Place1 == [latitude |-> 49933801, longitude |-> 189608755]
Place2 == [latitude |-> 49863983, longitude |-> 189580444]

\* callback_data of the buttons the bot sends (lines 71-76, 98, 139).
Button(bt) == <<"b","l","o","o","d","_">> \o bt
MenuButtons ==
  {<<"d","o","n","a","t","e">>, <<"f","i","n","d">>,
   <<"e","m","e","r","g","e","n","c","y">>, <<"p","r","o","f","i","l","e">>}

\* What each of the two users sends in the runs with both: the menu
\* buttons, one blood-type button, the start command, a native location, a
\* phone number and 'Never', or 'NEVER' and a date.
Updates(u) ==
  {CallbackUpdate(d) : d \in MenuButtons \cup {Button(BLOOD_TYPES[IF u = 1 THEN 7 ELSE 4])}}
    \cup {LocationUpdate(IF u = 1 THEN Place1 ELSE Place2)}
    \cup {TextUpdate(t) : t \in {T_start, IF u = 1 THEN T_phone ELSE T_phone880,
                                 IF u = 1 THEN T_Never ELSE T_NEVER}}
    \cup (IF u = 1 THEN {} ELSE {TextUpdate(T_date)})

\* What the one user sends in the runs with one.
SoloUpdates ==
  {CallbackUpdate(d) : d \in MenuButtons \cup {Button(BLOOD_TYPES[7]), Button(<<"X">>)}}
    \cup {LocationUpdate(Place1)}
    \cup {TextUpdate(t) : t \in {T_start, T_dms, T_link, T_address, T_phone, T_phone880,
                                 T_local, T_long, T_phoneNl, T_Never, T_date, T_neverMind,
                                 T_linkFar}}

\* Two users, each update handled to the end.
Next ==
  \E u \in Users : \E upd \in Updates(u) :
    \/ start(u, upd) /\ UNCHANGED seen
    \/ menu_callback(u, upd) /\ UNCHANGED seen
    \/ location(u, upd) /\ UNCHANGED seen
    \/ blood_type_callback(u, upd) /\ UNCHANGED seen
    \/ contact(u, upd) /\ UNCHANGED seen
    \/ profile(u, upd) /\ UNCHANGED seen
    \/ emergency_callback(u, upd) /\ UNCHANGED seen
    \/ location_find(u, upd) /\ UNCHANGED seen
    \/ unhandled(u, upd) /\ UNCHANGED seen

Spec == Init /\ [][Next]_vars

\* One user, every kind of input, the update recorded.
NextSolo ==
  \E upd \in SoloUpdates :
    \/ start(1, upd) /\ seen' = upd
    \/ menu_callback(1, upd) /\ seen' = upd
    \/ location(1, upd) /\ seen' = upd
    \/ blood_type_callback(1, upd) /\ seen' = upd
    \/ contact(1, upd) /\ seen' = upd
    \/ profile(1, upd) /\ seen' = upd
    \/ emergency_callback(1, upd) /\ seen' = upd
    \/ location_find(1, upd) /\ seen' = upd
    \/ unhandled(1, upd) /\ seen' = upd

SpecSolo == Init /\ [][NextSolo]_vars

\* ------------------------------------------------------------------------
\* find_nearest_donors alone: a table of up to MaxDonors rows, and calls
\* with every point, blood type and limit up to MaxLimit.
MaxDonors == 3
MaxLimit == 2

DonorName(i) == <<"D", DigitChars[i + 1]>>

Line == {0, 1, 2}

SomeRows(i) ==
  {DonorRow(i, DonorName(i), bt, lat, 0, T_phone, None) :
     bt \in {BLOOD_TYPES[7], BLOOD_TYPES[4]}, lat \in Line}

RECURSIVE Tables(_)
Tables(n) ==
  IF n = 0 THEN {{}}
  ELSE LET rest == Tables(n - 1)
       IN  rest \cup {t \cup {r} : t \in rest, r \in SomeRows(n)}

InitMatcher ==
  /\ state = [u \in Users |-> END]
  /\ user_data = [u \in Users |-> <<>>]
  /\ donors \in Tables(MaxDonors)
  /\ captured = [u \in Users |-> {}]
  /\ last = NoUpdate
  /\ seen = <<>>

CallMatcher(lat, lon, blood_type, limit) ==
  \E dbOk \in BOOLEAN :
  \E found \in find_nearest_donors(donors, lat, lon, blood_type, limit, dbOk) :
    /\ last' = [NoUpdate EXCEPT !.handler = "find_nearest_donors",
                            !.db = DbOutcome(dbOk),
                            !.matcher = Call(lat, lon, blood_type, limit, dbOk, found)]
    /\ UNCHANGED <<state, user_data, donors, captured, seen>>

\* One call on each table.
NextMatcher ==
  /\ ~last.matcher.called
  /\ \E lat \in Line, bt \in {BLOOD_TYPES[7], BLOOD_TYPES[4], BLOOD_TYPES[1]},
        limit \in 0..MaxLimit :
       CallMatcher(lat, 0, bt, limit)

SpecMatcher == InitMatcher /\ [][NextMatcher]_vars

\* ------------------------------------------------------------------------
\* The resolver chain alone: one update, made of up to MaxPieces pieces each
\* of which one strategy recognises, handled in LOCATION or in
\* LOCATION_FIND.
MaxPieces == 2

P_at     == <<"@","3",".","5",",","4",".","5">>
P_ll     == <<"l","l","=","1",".","5",",","-","2",".","5">>
P_dmsBad == <<"1","deg","2","'",".",".","\"","N","1","deg","2","'","3","\"","E">>
P_word   == <<"a","t"," ">>

Pieces == {T_dms, P_at, P_ll, P_dmsBad, P_word}

RECURSIVE Texts(_)
Texts(n) ==
  IF n = 0 THEN {<<>>}
  ELSE LET rest == Texts(n - 1)
       IN  rest \cup {p \o t : p \in Pieces, t \in rest}

ResolverUpdates ==
  {TextUpdate(t) : t \in Texts(MaxPieces) \ {<<>>}} \cup {LocationUpdate(Place1)}

InitResolver ==
  /\ \E s \in {LOCATION, LOCATION_FIND} : state = [u \in Users |-> IF u = 1 THEN s ELSE END]
  /\ \E d \in {<<>>, [blood_type |-> BLOOD_TYPES[7]]} :
       /\ user_data = [u \in Users |-> IF u = 1 THEN d ELSE <<>>]
       /\ captured = [u \in Users |-> IF u = 1 /\ state[1] = LOCATION_FIND
                                      THEN DOMAIN d ELSE {}]
  /\ donors = {}
  /\ last = NoUpdate
  /\ seen \in ResolverUpdates

NextResolver ==
  \/ location(1, seen) /\ UNCHANGED seen
  \/ location_find(1, seen) /\ UNCHANGED seen

SpecResolver == InitResolver /\ [][NextResolver]_vars

\* ------------------------------------------------------------------------
\* The claims.

\* C1 (as claimed): whenever a user whose conversation is in one of the seven
\* states sends the start command, and the lookup of start does not fail,
\* the conversation is in MENU afterwards.
C1_StartResetsToMenu ==
  (last.user = 1 /\ last.from \in States /\ IsStartCommand(seen)
     /\ ~(last.handler = "start" /\ last.db = "fail"))
    => state[1] = MENU

\* C2 (as claimed): every user_data key a handler reads has been stored by a
\* capture step of the flow in progress, on the find path as on the
\* emergency path and at the commit.
C2_ReadAfterCapture == last.reads \subseteq last.fresh

\* C3 (as claimed): in LOCATION_FIND a location input that resolves runs the
\* matcher with limit 5 and ends the conversation with a result list or the
\* none-found reply; one that does not resolve leaves LOCATION_FIND.
C3_FindCompletes ==
  (last.handler = "location_find" /\ last.from = LOCATION_FIND) =>
    IF last.where.kind = "coords"
    THEN /\ last.matcher.called
         /\ last.matcher.limit = 5
         /\ state[last.user] = END
         /\ last.reply \in {"found", "none_found"}
    ELSE state[last.user] = LOCATION_FIND

\* The rows of a user, and the row when there is one.
RowsOf(u) == {r \in donors : r.user_id = u}
RowOf(u) == CHOOSE r \in donors : r.user_id = u

\* At most one row for each user identifier.
OneRowPerUser == \A r1, r2 \in donors : r1.user_id = r2.user_id => r1 = r2

\* After a commit that succeeded: the four keys were stored in the flow that
\* committed, and the user's row holds their values, the last-donation value
\* of the flow and the display name; conv is what the store does to a
\* coordinate.
CommittedRow(u, lat, lon) ==
  LET d == user_data[u]
      r == RowOf(u)
  IN  /\ Keys \subseteq last.fresh
      /\ Cardinality(RowsOf(u)) = 1
      /\ r.name = full_name(u)
      /\ r.blood_type = d["blood_type"]
      /\ r.latitude = lat
      /\ r.longitude = lon
      /\ r.contact = d["contact"]
      /\ r.last_donation = last.committed[7]

Committed == last.handler = "profile" /\ last.reply = "registered"

\* C4: at most one row per user identifier, and after a
\* successful commit the user's row holds exactly the captured coordinates,
\* blood type, contact and last-donation value of that flow.
C4_ExactRecord ==
  /\ OneRowPerUser
  /\ Committed =>
       CommittedRow(last.user, user_data[last.user]["latitude"],
                    user_data[last.user]["longitude"])

\* C5: in PROFILE the scratchpad holds blood type, latitude, longitude and
\* contact, in CONTACT blood type, latitude and longitude, and a commit reads
\* no key that is missing.
C5_CommitPrecondition ==
  /\ \A u \in Users :
       /\ state[u] = PROFILE => Keys \subseteq DOMAIN user_data[u]
       /\ state[u] = CONTACT =>
            {"blood_type", "latitude", "longitude"} \subseteq DOMAIN user_data[u]
  /\ last.handler = "profile" => last.reads \subseteq DOMAIN user_data[last.user]

\* C5's case: a commit has read the four keys in a flow that was started
\* again by a user who had registered before.
C5_Witness ==
  /\ last.handler = "profile"
  /\ last.reads = Keys
  /\ last.registered
  /\ last.from = PROFILE

\* The entries of a call's result, against the table the call read.
MatcherDist(r) ==
  geodesic(r.latitude, r.longitude, last.matcher.latitude, last.matcher.longitude)
MatcherMatch == {r \in donors : r.blood_type = last.matcher.blood_type}
MatcherSource(e) ==
  {r \in MatcherMatch :
     r.name = e.name /\ r.contact = e.contact /\ MatcherDist(r) = e.distance}
MatcherReturned ==
  UNION {MatcherSource(last.matcher.result[i]) : i \in 1..Len(last.matcher.result)}

\* C6: find_nearest_donors returns at most limit entries, each the name,
\* contact and distance of a row of the requested blood type, in
\* non-decreasing distance, and no matching row left out is strictly nearer
\* than a returned one.
C6_MatcherShape ==
  last.matcher.called =>
    LET res == last.matcher.result IN
      /\ Len(res) <= last.matcher.limit
      /\ \A i \in 1..Len(res) : MatcherSource(res[i]) # {}
      /\ \A i \in 1..(Len(res) - 1) : res[i].distance <= res[i + 1].distance
      /\ \A r \in MatcherMatch \ MatcherReturned :
           \A i \in 1..Len(res) : MatcherDist(r) >= res[i].distance

\* C6's case: a call whose limit cuts the matching rows, with a row of
\* another blood type in the table and two different distances returned.
C6_Witness ==
  /\ last.matcher.called
  /\ last.matcher.dbOk
  /\ Len(last.matcher.result) = 2
  /\ last.matcher.limit = 2
  /\ Cardinality(MatcherMatch) = 3
  /\ last.matcher.result[1].distance < last.matcher.result[2].distance

\* C7: when no row has the sought blood type, or the connection or the
\* query fails, the matcher's result is empty, location_find answers that no
\* donor was found, raises nothing, and the conversation ends.
C7_FailSoft ==
  (/\ last.handler = "location_find"
   /\ last.matcher.called
   /\ (MatcherMatch = {} \/ ~last.matcher.dbOk))
    => /\ last.matcher.result = <<>>
       /\ last.reply = "none_found"
       /\ ~last.raised
       /\ state[last.user] = END

\* C7's case: the query succeeds on a table that has rows, none of the
\* sought blood type.
C7_Witness ==
  /\ last.handler = "location_find"
  /\ last.matcher.called
  /\ last.matcher.dbOk
  /\ donors # {}
  /\ MatcherMatch = {}
  /\ last.reply = "none_found"

\* A text none of the three resolvers turns into a point: no DMS pair, no
\* map link, and the geocoder returned None or raised.
Unresolved(upd, rec) ==
  /\ upd.kind = "text"
  /\ parse_dms_coordinate(upd.text) = None
  /\ extract_coords_from_google_maps_link(upd.text) = None
  /\ rec.where.geo \in {"none", "raise"}

\* C8: in LOCATION and in LOCATION_FIND, a text no resolver turns into a
\* point leaves the conversation in its state, the scratchpad and the table
\* as they were, calls no matcher, and is answered by a re-prompt, so the
\* same can happen again.
C8_UnresolvedStays ==
  [][(/\ last'.handler \in {"location", "location_find"}
      /\ state[1] \in {LOCATION, LOCATION_FIND}
      /\ Unresolved(seen', last'))
       => /\ state' = state
          /\ user_data' = user_data
          /\ donors' = donors
          /\ ~last'.matcher.called
          /\ ~last'.raised
          /\ last'.reply \in {"invalid_location", "location_error"}]_vars

\* C8's case: the geocoder raised on a text sent in LOCATION_FIND by a user
\* whose blood type is stored, right after it had returned None on another.
C8_Witness ==
  /\ last.handler = "location_find"
  /\ last.from = LOCATION_FIND
  /\ state[1] = LOCATION_FIND
  /\ "blood_type" \in DOMAIN user_data[1]
  /\ Unresolved(seen, last)
  /\ last.where.geo = "raise"

\* C9: when the store call of the commit, of the profile fetch or of start
\* fails, the handler raises nothing, answers with a try-again-later message
\* and the conversation is in the state it was in.
C9_StoreErrorKeepsState ==
  (last.db = "fail" /\ last.handler \in {"profile", "menu_callback", "start"})
    => /\ ~last.raised
       /\ last.reply \in {"save_error", "profile_error"}
       /\ state[last.user] = last.from

\* An optional '+', then 880, then exactly ten digits and nothing else.
StrictPhone(t) ==
  LET s == IF t # <<>> /\ t[1] = "+" THEN Tail(t) ELSE t
  IN  /\ Len(s) = 13
      /\ SubSeq(s, 1, 3) = <<"8", "8", "0">>
      /\ \A i \in 4..13 : s[i] \in Digit

\* C10: in CONTACT a text is stored as the contact and the conversation goes
\* to PROFILE if and only if the text is an optional '+', 880 and exactly ten
\* digits; every other text leaves the conversation in CONTACT and the
\* scratchpad as it was.
C10_ContactValidation ==
  [][(last'.handler = "contact" /\ state[1] = CONTACT)
       => IF StrictPhone(seen'.text)
          THEN /\ state'[1] = PROFILE
               /\ user_data'[1] = Put(user_data[1], "contact", seen'.text)
          ELSE /\ state'[1] = CONTACT
               /\ user_data' = user_data]_vars

never == <<"n", "e", "v", "e", "r">>

\* C11: in PROFILE, with the store reachable, 'never' in any letter case
\* commits a row without a last-donation date and ends the conversation, a
\* text that parses as YYYY-MM-DD commits a row with that date and ends the
\* conversation, and any other text leaves the conversation in PROFILE and
\* the table as it was.
C11_ProfileOutcomes ==
  [][(last'.handler = "profile" /\ state[1] = PROFILE /\ last'.db # "fail")
       => IF Lower(seen'.text) = never
          THEN /\ state'[1] = END
               /\ \E r \in donors' : r.user_id = 1 /\ r.last_donation = None
          ELSE IF strptime(seen'.text) # None
          THEN /\ state'[1] = END
               /\ \E r \in donors' :
                    r.user_id = 1 /\ r.last_donation = isoformat(strptime(seen'.text))
          ELSE /\ state'[1] = PROFILE
               /\ donors' = donors]_vars

\* C12: handling an update of one user, one that fails too, leaves the
\* conversation state and the scratchpad of every other user as they were.
C12_SessionIndependence ==
  [][\A b \in Users :
       b # last'.user => state'[b] = state[b] /\ user_data'[b] = user_data[b]]_vars

\* C12's case: the handler of user 1's update raised while user 2 was in the
\* middle of a registration with coordinates and blood type stored.
C12_Witness ==
  /\ last.user = 1
  /\ last.raised
  /\ state[2] = CONTACT
  /\ {"latitude", "longitude", "blood_type"} \subseteq DOMAIN user_data[2]
  /\ user_data[1] # user_data[2]

\* C13: once a flow has ended (a commit, a find or emergency result, the
\* profile shown) or has been restarted by start, the scratchpad of the user
\* holds none of the fields the flow wrote.
C13_ScratchpadScoped ==
  \A u \in Users :
    (state[u] = END \/ (last.user = u /\ last.handler = "start" /\ state[u] = MENU))
      => Keys \cap DOMAIN user_data[u] = {}

\* C14: every row of the table has one of the eight blood types of
\* BLOOD_TYPES, and a conversation that left BLOOD_TYPE for CONTACT has
\* stored one of them.
C14_CanonicalBloodType ==
  /\ \A r \in donors : \E i \in 1..8 : r.blood_type = BLOOD_TYPES[i]
  /\ (last.handler = "blood_type_callback" /\ state[last.user] = CONTACT)
       => \E i \in 1..8 : user_data[last.user]["blood_type"] = BLOOD_TYPES[i]

\* C15: every row of the table has a latitude within [-90, 90] and a
\* longitude within [-180, 180].
C15_CoordinatesInRange ==
  \A r \in donors :
    /\ Abs(r.latitude) <= 90 * Unit
    /\ Abs(r.longitude) <= 180 * Unit

UserIds(table) == {r.user_id : r \in table}

\* C16: the table changes only in a step of profile that commits, that step
\* changes only the row of the sending user, and no step removes a user
\* identifier from the table.
C16_DonorLifecycle ==
  [][/\ UserIds(donors) \subseteq UserIds(donors')
     /\ donors' # donors =>
          /\ last'.handler = "profile"
          /\ last'.from = PROFILE
          /\ last'.reply = "registered"
          /\ \A r \in donors \cup donors' :
               r.user_id # last'.user => (r \in donors /\ r \in donors')]_vars

\* C16's case: a user who had a row commits again while the other user has
\* a row.
C16_Witness ==
  /\ Committed
  /\ last.registered
  /\ \E r \in donors : r.user_id # last.user

\* C17: a native location is used as it is; of a text the DMS pair is used
\* when the DMS parse finds one, else the pair after '@', else the pair after
\* 'll=', and the geocoder is asked only when none of them is there; the
\* point used by location (stored) and by location_find (given to the
\* matcher) is that one.
C17_ResolverPriority ==
  (last.handler \in {"location", "location_find"}) =>
    LET w == last.where IN
    /\ seen.kind = "location" =>
         /\ w.kind = "coords" /\ w.geo = "unused"
         /\ <<w.latitude, w.longitude>> = <<seen.location.latitude, seen.location.longitude>>
    /\ seen.kind = "text" =>
         LET dms == parse_dms_coordinate(seen.text)
             at  == SearchPair(seen.text, <<"@">>)
             ll  == SearchPair(seen.text, <<"l", "l", "=">>)
             hit == dms \notin {None, ValueError}
         IN  /\ w.geo # "unused" => (dms = None /\ ~at.ok /\ ~ll.ok)
             /\ (hit \/ (dms = None /\ (at.ok \/ ll.ok))) => w.kind = "coords"
             /\ w.kind = "coords" =>
                  <<w.latitude, w.longitude>> =
                    IF hit THEN dms
                    ELSE IF at.ok THEN <<FloatUnits(at.lat), FloatUnits(at.lon)>>
                    ELSE IF ll.ok THEN <<FloatUnits(ll.lat), FloatUnits(ll.lon)>>
                    ELSE <<GeoPlace.latitude, GeoPlace.longitude>>
    /\ (last.handler = "location" /\ w.kind = "coords") =>
         /\ user_data[1]["latitude"] = w.latitude
         /\ user_data[1]["longitude"] = w.longitude
    /\ last.matcher.called =>
         /\ last.matcher.latitude = w.latitude
         /\ last.matcher.longitude = w.longitude

\* C17's case: a text with a pair after 'll=' and then a pair after '@',
\* sent in LOCATION_FIND: the matcher is given the pair after '@'.
C17_Witness ==
  /\ last.handler = "location_find"
  /\ seen = TextUpdate(P_ll \o P_at)
  /\ last.matcher.called
  /\ last.matcher.latitude = 7 * (Unit \div 2)

\* The four choices of the menu.
Choice(w) ==
  CASE w = "donate"    -> <<"d","o","n","a","t","e">>
    [] w = "find"      -> <<"f","i","n","d">>
    [] w = "emergency" -> <<"e","m","e","r","g","e","n","c","y">>
    [] w = "profile"   -> <<"p","r","o","f","i","l","e">>

C19_UnhandledNoOp ==
  [][seen'.kind = "callback" =>
       /\ (\/ state[1] \in {LOCATION, CONTACT, PROFILE, LOCATION_FIND}
           \/ /\ state[1] \in {BLOOD_TYPE, EMERGENCY}
              /\ ~At(seen'.data, 1, <<"b","l","o","o","d","_">>))
            => /\ state' = state
               /\ user_data' = user_data
               /\ donors' = donors
               /\ last'.reply = "none"
       /\ (/\ state[1] = MENU
           /\ \A w \in {"donate", "find", "emergency", "profile"} : seen'.data # Choice(w))
            => /\ state'[1] = MENU
               /\ user_data' = user_data]_vars

\* C19's case: a menu button pressed again while the conversation waits for
\* a contact number, with coordinates and blood type stored.
C19_Witness ==
  /\ seen = CallbackUpdate(Choice("find"))
  /\ last.from = CONTACT
  /\ last.handler = "none"
  /\ state[1] = CONTACT
  /\ "blood_type" \in DOMAIN user_data[1]

\* The blood type in a user's scratchpad, None without one.
StoredBloodType(u) ==
  IF "blood_type" \in DOMAIN user_data[u] THEN user_data[u]["blood_type"] ELSE None

\* C20: the blood type in a user's scratchpad is changed only by a selection
\* of that user in BLOOD_TYPE or EMERGENCY, so in the plain find flow, which
\* has no selection, it is the one the user selected last in an earlier
\* flow; the matcher is called only when the sender's scratchpad has one,
\* and is given that one.
C20_FindFilterSource ==
  [][/\ \A u \in Users :
          StoredBloodType(u)' # StoredBloodType(u) =>
            /\ last'.user = u
            /\ last'.handler \in {"blood_type_callback", "emergency_callback"}
     /\ last'.matcher.called =>
          /\ last'.handler = "location_find"
          /\ StoredBloodType(last'.user) # None
          /\ last'.matcher.blood_type = StoredBloodType(last'.user)]_vars

\* C20's case: the matcher called in a plain find flow, where no blood type
\* was selected, while the other user's scratchpad holds another blood type.
C20_Witness ==
  /\ last.handler = "location_find"
  /\ last.matcher.called
  /\ "blood_type" \notin last.fresh
  /\ \E v \in Users \ {last.user} :
       /\ StoredBloodType(v) # None
       /\ StoredBloodType(v) # last.matcher.blood_type

====
